---- MODULE Spec2Model ----
(***************************************************************************)
(* Preview generation and cache subsystem of the OCT B-scan labeler        *)
(* (backend/app/services/preview_service.py with the pipeline of           *)
(* backend/app/utils/image_processing.py).                                 *)
(*                                                                         *)
(* PreviewService is a module-level singleton whose methods are plain      *)
(* synchronous functions over a shared directory tree; it holds no lock.   *)
(* Callers are modelled as workers (threads, or worker processes sharing   *)
(* cache_dir); a worker's call advances one file-system operation at a     *)
(* time, which is the granularity at which the operating system            *)
(* interleaves them.  Spec restricts the same steps to a single caller,     *)
(* SpecConc lets the callers interleave.                                   *)
(*                                                                         *)
(* The record store (table bscans of backend/app/db/models.py) with the    *)
(* navigation queries of services/bscan_service.py, the label operations   *)
(* of services/labeling_service.py and the routes of api/v1/bscans.py is   *)
(* the second part of the model; SpecStore runs it over stores with gaps   *)
(* in the indices and records of a second scan, SpecLife runs it together  *)
(* with the cache operations.  SpecPath resolves cache paths for scan ids  *)
(* spelled out as strings, SpecNorm applies the normalizers of             *)
(* utils/image_processing.py to small images.                              *)
(***************************************************************************)
EXTENDS Integers, FiniteSets, Sequences, TLC

\* ---- bounds of the model
NumWorkers == 2
MaxIndex == 1
MaxGen == 2
MaxBscanIndex == 2
MaxLabelInput == 3
MaxUpdates == 2

Scans == {"s1", "s2"}
Indices == 0..MaxIndex
Keys == Scans \X Indices
Workers == 1..NumWorkers

\* table bscans: a row is identified by (scan_id, bscan_index), unique by index
\* idx_scan_bscan, and the pair stands for the row's primary key as well
BscanIndices == 0..MaxBscanIndex
BscanIds == Scans \X BscanIndices
Labels == {0, 1, 2}
LabelInputs == 0..MaxLabelInput

\* ---- configuration surface (app/config.py) and the values the code accepts
DefaultFormat == "webp"
DefaultMethod == "percentile"
SupportedFormats == {"webp", "png", "jpeg", "jpg"}
SupportedMethods == {"percentile", "fixed_window"}

\* What a call finds at source_path: nothing, a file PIL cannot decode, an image.
SrcStates == {"missing", "corrupt", "valid"}

GenOps == {"get_or_generate_preview", "force_regenerate"}

VARIABLES
    scope,      \* the scans this run's requests name (fixed by the initial state)
    format,     \* settings.preview_format, read once in PreviewService.__init__
    method,     \* settings.normalization_method
    dirs,       \* scan subdirectories that exist under cache_dir
    files,      \* files[k]: "none", "partial" (opened, not fully written), "complete"
    pc,         \* pc[w]: where worker w stands in its call
    call,       \* call[w]: the operation and arguments of w's current call
    loc,        \* loc[w]: the local variables of w's call
    ret,        \* ret[w]: what w's call returned or raised
    gens,       \* gens[k]: completed non-forced generations since k was last absent
    lastInv,    \* scan of the clear_cache_for_scan call that completed last, if no
                \* other call started since; "-" otherwise
    bscans,     \* the rows of table bscans: (scan_id, bscan_index) |-> label
    resolved,   \* get_preview_path on spelled-out scan ids: the calls made
    norm        \* the call of a normalizer: its arguments and what it gave

vars == <<scope, format, method, dirs, files, pc, call, loc, ret, gens, lastInv,
          bscans, resolved, norm>>

\* scalar_one_or_none() on an empty result
None == -1

NoCall == [op |-> "none", scan |-> "-", idx |-> 0, force |-> FALSE, src |-> "-",
           label |-> 0, auth |-> FALSE, updates |-> <<>>]
NoLoc == [cur |-> "-", todo |-> {}, stodo |-> {}, count |-> 0, total |-> 0,
          created |-> FALSE, mine |-> FALSE, ran |-> FALSE, pre |-> 0]
NoRet == [kind |-> "none", why |-> "-", path |-> <<>>, hit |-> "-", count |-> 0,
          nscans |-> 0, value |-> None, stats |-> <<>>]

Key(w) == <<call[w].scan, call[w].idx>>

FilesOf(s) == {i \in Indices : files[<<s, i>>] # "none"}
Existing == {k \in Keys : files[k] # "none"}

\* scan_cache_dir / f"{bscan_index}.{self.preview_format}" under cache_dir
PreviewPath(scan, idx) == <<"previews", scan, idx, format>>

Ok(path) == [NoRet EXCEPT !.kind = "ok", !.path = path]
\* a cache hit: the path, and (for the record) the state of the file it was taken for
Hit(path, state) == [NoRet EXCEPT !.kind = "ok", !.path = path, !.hit = state]
Raise(kind, why) == [NoRet EXCEPT !.kind = kind, !.why = why]
Count(n) == [NoRet EXCEPT !.kind = "ok", !.count = n]

\* What stays on record of a call's locals once it has returned: whether it ran the
\* pipeline, whether it created and wrote the file at its path, and how many files
\* were there for it to clear when it was called.
Keep(l) == [NoLoc EXCEPT !.ran = l.ran, !.created = l.created, !.mine = l.mine,
                         !.pre = l.pre]

\* the call of w returns or raises r; l is the locals as the last step left them
Finish(w, r, l) ==
    /\ pc' = [pc EXCEPT ![w] = "done"]
    /\ ret' = [ret EXCEPT ![w] = r]
    /\ loc' = [l EXCEPT ![w] = Keep(l[w])]

Goto(w, lbl, l) ==
    /\ pc' = [pc EXCEPT ![w] = lbl]
    /\ loc' = l
    /\ UNCHANGED ret

TypeOK ==
    /\ scope \subseteq Scans
    /\ format \in STRING /\ method \in STRING
    /\ dirs \subseteq Scans
    /\ files \in [Keys -> {"none", "partial", "complete"}]
    /\ gens \in [Keys -> 0..MaxGen]
    /\ lastInv \in Scans \cup {"-"}
    /\ DOMAIN bscans \subseteq BscanIds
    /\ \A k \in DOMAIN bscans : bscans[k] \in Labels

NoNorm == [fn |-> "none", img |-> <<>>, a |-> 0, b |-> 0, numpy2 |-> FALSE,
           out |-> <<>>, raised |-> "none", divzero |-> FALSE]

\* rows as create_bscan inserts them: label 0
Imported(ids) == [k \in ids |-> 0]

Service ==
    /\ format = DefaultFormat
    /\ method = DefaultMethod
    /\ dirs = {}
    /\ files = [k \in Keys |-> "none"]
    /\ pc = [w \in Workers |-> "idle"]
    /\ call = [w \in Workers |-> NoCall]
    /\ loc = [w \in Workers |-> NoLoc]
    /\ ret = [w \in Workers |-> NoRet]
    /\ gens = [k \in Keys |-> 0]
    /\ lastInv = "-"
    /\ resolved = {}
    /\ norm = NoNorm

\* requests for every scan
Init ==
    /\ scope = Scans
    /\ Service
    /\ bscans = Imported({})

\* requests that contend for the slices of one scan
InitConc ==
    /\ scope = {"s1"}
    /\ Service
    /\ bscans = Imported({})

\* requests for one scan and its records, while the cache holds an entry of the
\* other scan from earlier requests
InitLife ==
    /\ scope = {"s1"}
    /\ format = DefaultFormat
    /\ method = DefaultMethod
    /\ dirs = {"s2"}
    /\ files = [k \in Keys |-> IF k = <<"s2", 0>> THEN "complete" ELSE "none"]
    /\ pc = [w \in Workers |-> "idle"]
    /\ call = [w \in Workers |-> NoCall]
    /\ loc = [w \in Workers |-> NoLoc]
    /\ ret = [w \in Workers |-> NoRet]
    /\ gens = [k \in Keys |-> IF k = <<"s2", 0>> THEN 1 ELSE 0]
    /\ lastInv = "-"
    /\ resolved = {}
    /\ norm = NoNorm
    /\ bscans = Imported({<<"s1", 0>>})

\* settings.preview_format and settings.normalization_method are plain strings:
\* any value can be configured, among them ones the pipeline does not know
ConfiguredFormats == SupportedFormats \cup {"bmp"}
ConfiguredMethods == SupportedMethods \cup {"histogram"}

\* a service started under any configuration, on a cache directory that is
\* empty or holds the entry an earlier run has written under the same format
InitConfig ==
    /\ scope = {"s1"}
    /\ format \in ConfiguredFormats
    /\ method \in ConfiguredMethods
    /\ \E cached \in SUBSET {<<"s1", 0>>} :
          /\ cached # {} => format \in SupportedFormats
          /\ dirs = {k[1] : k \in cached}
          /\ files = [k \in Keys |-> IF k \in cached THEN "complete" ELSE "none"]
          /\ gens = [k \in Keys |-> IF k \in cached THEN 1 ELSE 0]
    /\ pc = [w \in Workers |-> "idle"]
    /\ call = [w \in Workers |-> NoCall]
    /\ loc = [w \in Workers |-> NoLoc]
    /\ ret = [w \in Workers |-> NoRet]
    /\ lastInv = "-"
    /\ resolved = {}
    /\ norm = NoNorm
    /\ bscans = Imported({})

\* no request to the service or the store: the pure functions are applied alone
InitPure ==
    /\ scope = {}
    /\ Service
    /\ bscans = Imported({})

\* the record store after any import: any set of rows, indices with gaps, a
\* second scan beside the one the requests name
InitStore ==
    /\ scope = {"s1"}
    /\ Service
    /\ \E ids \in SUBSET BscanIds : bscans = Imported(ids)

\* the records of one scan after an import that has left the last index out
InitBulk ==
    /\ scope = {"s1"}
    /\ Service
    /\ bscans = Imported({"s1"} \X (0..(MaxBscanIndex - 1)))

\* ---- a caller enters one of the public operations
StartGenerate(w) ==
    /\ pc[w] = "idle"
    /\ \E op \in GenOps, s \in scope, i \in Indices, src \in SrcStates :
          call' = [call EXCEPT ![w] = [NoCall EXCEPT !.op = op, !.scan = s,
                                          !.idx = i,
                                          !.force = (op = "force_regenerate"),
                                          !.src = src]]
    /\ pc' = [pc EXCEPT ![w] = "resolve"]
    /\ lastInv' = "-"
    /\ UNCHANGED <<resolved, norm, bscans, scope, format, method, dirs, files, loc, ret, gens>>

\* get_preview_path: builds the path and creates the scan subdirectory
get_preview_path(w) ==
    /\ pc[w] = "resolve"
    /\ dirs' = dirs \cup {call[w].scan}
    /\ Goto(w, "check", loc)
    /\ UNCHANGED <<resolved, norm, bscans, scope, format, method, files, call, gens, lastInv>>

\* Variants of the existence test a slip in line 108 would give: the test dropped,
\* the source looked at before the cache, the force flag not honoured.
CacheHit_never(w) == FALSE
CacheHit_needs_source(w) ==
    files[Key(w)] # "none" /\ ~call[w].force /\ call[w].src # "missing"
CacheHit_ignores_force(w) == files[Key(w)] # "none"

\* generate_preview_for_bscan, line 108: the existence test on the path
CacheHit(w) == files[Key(w)] # "none" /\ ~call[w].force

\* generate_preview_for_bscan, lines 107-109
check_cached(w) ==
    /\ pc[w] = "check"
    /\ IF CacheHit(w)
          THEN Finish(w, Hit(PreviewPath(call[w].scan, call[w].idx), files[Key(w)]), loc)
          ELSE Goto(w, "source", loc)
    /\ UNCHANGED <<resolved, norm, bscans, scope, format, method, dirs, files, call, gens, lastInv>>

\* Variant: the source is not checked before the pipeline starts.
SourceMissing_unchecked(w) == FALSE
\* Variant: a failure is remembered for its key and answered again without a look
\* at the source.
SourceMissing_remembered(w) ==
    \/ call[w].src = "missing"
    \/ \E v \in Workers \ {w} : pc[v] = "done" /\ ret[v].kind \notin {"none", "ok"}
                                /\ Key(v) = Key(w)

\* Variant: a forced regeneration goes to the pipeline without the check.
SourceMissing_unless_forced(w) == call[w].src = "missing" /\ ~call[w].force

\* generate_preview_for_bscan, line 112: not source_path.exists()
SourceMissing(w) == call[w].src = "missing"

\* generate_preview_for_bscan, lines 111-113
check_source(w) ==
    /\ pc[w] = "source"
    /\ IF SourceMissing(w)
          THEN Finish(w, Raise("FileNotFoundError", "source"), loc)
          ELSE Goto(w, "load", loc)
    /\ UNCHANGED <<resolved, norm, bscans, scope, format, method, dirs, files, call, gens, lastInv>>

\* generate_preview: load_16bit_image, then convert_16bit_to_8bit
load_and_convert(w) ==
    /\ pc[w] = "load"
    /\ LET l == [loc EXCEPT ![w].ran = TRUE] IN
       IF call[w].src # "valid"
          THEN Finish(w, IF call[w].src = "missing"
                            THEN Raise("FileNotFoundError", "load")
                            ELSE Raise("ValueError", "decode"), l)
          ELSE IF method \notin SupportedMethods
                  THEN Finish(w, Raise("ValueError", "method"), l)
                  ELSE Goto(w, "save", l)
    /\ UNCHANGED <<resolved, norm, bscans, scope, format, method, dirs, files, call, gens, lastInv>>

\* Variant: a format that is not known is written as the default format.
save_preview_image_default(w) ==
    /\ pc[w] = "save"
    /\ dirs' = dirs \cup {call[w].scan}
    /\ Goto(w, "open", loc)
    /\ UNCHANGED <<resolved, norm, bscans, scope, format, method, files, call, gens, lastInv>>

\* save_preview_image, lines 151-166 up to the call of img.save
save_preview_image(w) ==
    /\ pc[w] = "save"
    /\ dirs' = dirs \cup {call[w].scan}
    /\ IF format \notin SupportedFormats
          THEN Finish(w, Raise("ValueError", "format"), loc)
          ELSE Goto(w, "open", loc)
    /\ UNCHANGED <<resolved, norm, bscans, scope, format, method, files, call, gens, lastInv>>

\* A path that loses its file detaches every writer that had it open.
Detach(l, k) ==
    [v \in Workers |->
        IF pc[v] = "write" /\ Key(v) = k THEN [l[v] EXCEPT !.mine = FALSE] ELSE l[v]]

\* img.save opens output_path for writing: the file exists, empty, from here on
save_open(w) ==
    /\ pc[w] = "open"
    /\ IF call[w].scan \notin dirs
          THEN /\ Finish(w, Raise("FileNotFoundError", "nodir"), loc)
               /\ UNCHANGED files
          ELSE /\ files' = [files EXCEPT ![Key(w)] = "partial"]
               /\ Goto(w, "write", [loc EXCEPT ![w].created = (files[Key(w)] = "none"),
                                               ![w].mine = TRUE])
    /\ UNCHANGED <<resolved, norm, bscans, scope, format, method, dirs, call, gens, lastInv>>

Bump(k) == IF gens[k] < MaxGen THEN gens[k] + 1 ELSE gens[k]

\* img.save writes the encoded image and closes the file; the call returns
save_write(w) ==
    /\ pc[w] = "write"
    /\ files' = [files EXCEPT ![Key(w)] = IF loc[w].mine THEN "complete" ELSE @]
    /\ gens' = [gens EXCEPT ![Key(w)] = IF call[w].force THEN @ ELSE Bump(Key(w))]
    /\ Finish(w, Ok(PreviewPath(call[w].scan, call[w].idx)), loc)
    /\ UNCHANGED <<resolved, norm, bscans, scope, format, method, dirs, call, lastInv>>

\* img.save fails while encoding or writing.  Whether the library then removes a
\* file it created depends on its version; a file it did not create is left as is.
\* Variant: the library removes the file whether it created it or not.
Removable_any(w) == files[Key(w)] # "none"

\* the file a failed save may remove: one that this save created
Removable(w) == loc[w].created /\ files[Key(w)] # "none"

save_fail(w) ==
    /\ pc[w] = "write"
    /\ \E cleanup \in BOOLEAN :
          IF cleanup /\ Removable(w)
             THEN /\ files' = [files EXCEPT ![Key(w)] = "none"]
                  /\ gens' = [gens EXCEPT ![Key(w)] = 0]
                  /\ Finish(w, Raise("OSError", "write"), Detach(loc, Key(w)))
             ELSE /\ Finish(w, Raise("OSError", "write"), loc)
                  /\ UNCHANGED <<files, gens>>
    /\ UNCHANGED <<resolved, norm, bscans, scope, format, method, dirs, call, lastInv>>

\* ---- invalidation
StartClear(w) ==
    /\ pc[w] = "idle"
    /\ \E s \in scope :
          /\ call' = [call EXCEPT ![w] = [NoCall EXCEPT !.op = "clear_cache_for_scan",
                                                        !.scan = s]]
          /\ loc' = [loc EXCEPT ![w] = [NoLoc EXCEPT !.cur = s,
                                                     !.pre = Cardinality(FilesOf(s))]]
    /\ pc' = [pc EXCEPT ![w] = "clr_exists"]
    /\ UNCHANGED <<resolved, norm, bscans, scope, format, method, dirs, files, ret, gens, lastInv>>

\* Variant: the count of the last scan replaces the running total.
AddCleared_last(total, n) == n

\* clear_all_cache, line 200: count += self.clear_cache_for_scan(scan_dir.name)
AddCleared(total, n) == total + n

\* clear_cache_for_scan returns n: to its caller, or into the loop of clear_all_cache
ReturnFromClear(w, l, n) ==
    IF call[w].op = "clear_all_cache"
       THEN Goto(w, "all_next", [l EXCEPT ![w].total = AddCleared(@, n), ![w].cur = "-",
                                          ![w].todo = {}, ![w].count = 0])
       ELSE Finish(w, Count(n), l)

\* clear_cache_for_scan, lines 172-174
clear_exists(w) ==
    /\ pc[w] = "clr_exists"
    /\ IF loc[w].cur \notin dirs
          THEN ReturnFromClear(w, loc, 0)
          ELSE Goto(w, "clr_glob", loc)
    /\ UNCHANGED <<resolved, norm, bscans, scope, format, method, dirs, files, call, gens, lastInv>>

\* scan_cache_dir.glob: the directory is listed once.  Listing a directory that has
\* vanished raises or yields nothing, depending on the Python version.
clear_glob(w) ==
    /\ pc[w] = "clr_glob"
    /\ IF loc[w].cur \in dirs
          THEN Goto(w, "clr_unlink", [loc EXCEPT ![w].todo = FilesOf(loc[w].cur)])
          ELSE \E raises \in BOOLEAN :
                  IF raises
                     THEN Finish(w, Raise("FileNotFoundError", "glob"), loc)
                     ELSE Goto(w, "clr_unlink", loc)
    /\ UNCHANGED <<resolved, norm, bscans, scope, format, method, dirs, files, call, gens, lastInv>>

\* Variant: the deleted file is not counted.
CountUnlinked_not(n) == n

\* line 179: count += 1
CountUnlinked(n) == n + 1

\* the loop of lines 177-179: preview_file.unlink(); count += 1
clear_unlink(w) ==
    /\ pc[w] = "clr_unlink"
    /\ IF loc[w].todo = {}
          THEN /\ Goto(w, "clr_empty", loc)
               /\ UNCHANGED <<files, gens>>
          ELSE \E i \in loc[w].todo :
                  LET k == <<loc[w].cur, i>> IN
                  IF files[k] = "none"
                     THEN /\ Finish(w, Raise("FileNotFoundError", "unlink"), loc)
                          /\ UNCHANGED <<files, gens>>
                     ELSE /\ files' = [files EXCEPT ![k] = "none"]
                          /\ gens' = [gens EXCEPT ![k] = 0]
                          /\ Goto(w, "clr_unlink",
                                  [Detach(loc, k) EXCEPT ![w].todo = @ \ {i},
                                                         ![w].count = CountUnlinked(@)])
    /\ UNCHANGED <<resolved, norm, bscans, scope, format, method, dirs, call, lastInv>>

\* line 182: scan_cache_dir.exists() and not any(scan_cache_dir.iterdir())
clear_empty(w) ==
    /\ pc[w] = "clr_empty"
    /\ IF loc[w].cur \in dirs /\ FilesOf(loc[w].cur) = {}
          THEN Goto(w, "clr_rmdir", loc)
          ELSE ReturnFromClear(w, loc, loc[w].count)
    /\ UNCHANGED <<resolved, norm, bscans, scope, format, method, dirs, files, call, gens, lastInv>>

\* line 183: scan_cache_dir.rmdir()
clear_rmdir(w) ==
    /\ pc[w] = "clr_rmdir"
    /\ IF loc[w].cur \notin dirs
          THEN /\ Finish(w, Raise("FileNotFoundError", "rmdir"), loc)
               /\ UNCHANGED dirs
          ELSE IF FilesOf(loc[w].cur) # {}
                  THEN /\ Finish(w, Raise("OSError", "notempty"), loc)
                       /\ UNCHANGED dirs
                  ELSE /\ dirs' = dirs \ {loc[w].cur}
                       /\ ReturnFromClear(w, loc, loc[w].count)
    /\ UNCHANGED <<resolved, norm, bscans, scope, format, method, files, call, gens, lastInv>>

StartClearAll(w) ==
    /\ pc[w] = "idle"
    /\ call' = [call EXCEPT ![w] = [NoCall EXCEPT !.op = "clear_all_cache"]]
    /\ loc' = [loc EXCEPT ![w] = [NoLoc EXCEPT !.pre = Cardinality(Existing)]]
    /\ pc' = [pc EXCEPT ![w] = "all_iter"]
    /\ lastInv' = "-"
    /\ UNCHANGED <<resolved, norm, bscans, scope, format, method, dirs, files, ret, gens>>

\* clear_all_cache, line 198: self.cache_dir.iterdir() lists the scan directories
clear_all_iter(w) ==
    /\ pc[w] = "all_iter"
    /\ Goto(w, "all_next", [loc EXCEPT ![w].stodo = dirs])
    /\ UNCHANGED <<resolved, norm, bscans, scope, format, method, dirs, files, call, gens, lastInv>>

\* lines 198-202: for each listed entry that is (still) a directory, clear it
clear_all_next(w) ==
    /\ pc[w] = "all_next"
    /\ IF loc[w].stodo = {}
          THEN Finish(w, Count(loc[w].total), loc)
          ELSE \E s \in loc[w].stodo :
                  IF s \in dirs
                     THEN Goto(w, "clr_exists",
                               [loc EXCEPT ![w].stodo = @ \ {s}, ![w].cur = s])
                     ELSE Goto(w, "all_next", [loc EXCEPT ![w].stodo = @ \ {s}])
    /\ UNCHANGED <<resolved, norm, bscans, scope, format, method, dirs, files, call, gens, lastInv>>

\* ---- statistics
\* Variant: only files that were written to the end are counted.
GlobPreviews_complete(s) == {i \in Indices : files[<<s, i>>] = "complete"}

\* get_cache_stats, line 226: the files scan_dir.glob yields for one scan directory
GlobPreviews(s) == FilesOf(s)

\* get_cache_stats, lines 223-228: the walk over the scan directories, adding one to
\* total_scans per directory and one to total_previews per file found in it
RECURSIVE WalkCache(_, _)
WalkCache(ds, acc) ==
    IF ds = {}
       THEN acc
       ELSE LET s == CHOOSE x \in ds : TRUE IN
            WalkCache(ds \ {s},
                      [total_scans |-> acc.total_scans + 1,
                       total_previews |-> acc.total_previews
                                             + Cardinality(GlobPreviews(s))])

\* get_cache_stats walks the tree (taken as one snapshot of it)
get_cache_stats(w) ==
    /\ pc[w] = "idle"
    /\ call' = [call EXCEPT ![w] = [NoCall EXCEPT !.op = "get_cache_stats"]]
    /\ LET st == WalkCache(dirs, [total_scans |-> 0, total_previews |-> 0]) IN
       Finish(w, [NoRet EXCEPT !.kind = "ok", !.nscans = st.total_scans,
                                  !.count = st.total_previews], loc)
    /\ lastInv' = "-"
    /\ UNCHANGED <<resolved, norm, bscans, scope, format, method, dirs, files, gens>>

\* ---- the caller takes the result; the worker is free for the next call
Return(w) ==
    /\ pc[w] = "done"
    /\ pc' = [pc EXCEPT ![w] = "idle"]
    /\ lastInv' = IF call[w].op = "clear_cache_for_scan" /\ ret[w].kind = "ok"
                     THEN call[w].scan ELSE lastInv
    /\ call' = [call EXCEPT ![w] = NoCall]
    /\ loc' = [loc EXCEPT ![w] = NoLoc]
    /\ ret' = [ret EXCEPT ![w] = NoRet]
    /\ UNCHANGED <<resolved, norm, bscans, scope, format, method, dirs, files, gens>>

generate_preview_for_bscan(w) ==
    \/ get_preview_path(w)
    \/ check_cached(w)
    \/ check_source(w)
    \/ load_and_convert(w)
    \/ save_preview_image(w)
    \/ save_open(w)
    \/ save_write(w)
    \/ save_fail(w)

clear_cache_for_scan(w) ==
    \/ clear_exists(w)
    \/ clear_glob(w)
    \/ clear_unlink(w)
    \/ clear_empty(w)
    \/ clear_rmdir(w)

clear_all_cache(w) ==
    \/ clear_all_iter(w)
    \/ clear_all_next(w)

Step(w) ==
    \/ StartGenerate(w)
    \/ generate_preview_for_bscan(w)
    \/ StartClear(w)
    \/ clear_cache_for_scan(w)
    \/ StartClearAll(w)
    \/ clear_all_cache(w)
    \/ get_cache_stats(w)
    \/ Return(w)

\* ---- preview_exists: resolves the path (and with it creates the scan
\* subdirectory), then tests the file
preview_exists(w) ==
    /\ pc[w] = "idle"
    /\ \E s \in scope, i \in Indices :
          /\ call' = [call EXCEPT ![w] = [NoCall EXCEPT !.op = "preview_exists",
                                                        !.scan = s, !.idx = i]]
          /\ dirs' = dirs \cup {s}
          /\ Finish(w, [NoRet EXCEPT !.kind = "ok", !.hit = files[<<s, i>>]], loc)
    /\ lastInv' = "-"
    /\ UNCHANGED <<resolved, norm, bscans, scope, format, method, files, gens>>

(***************************************************************************)
(* Record store: navigation, labels, statistics                            *)
(***************************************************************************)
Min(S) == CHOOSE x \in S : \A y \in S : x <= y
Max(S) == CHOOSE x \in S : \A y \in S : x >= y

\* .order_by(BScan.bscan_index.asc()).limit(1) and scalar_one_or_none()
FirstAsc(S) == IF S = {} THEN None ELSE Min(S)
\* .order_by(BScan.bscan_index.desc()).limit(1) and scalar_one_or_none()
FirstDesc(S) == IF S = {} THEN None ELSE Max(S)

\* .where(BScan.scan_id == scan_id)
Rows(scan_id) == {k \in DOMAIN bscans : k[1] = scan_id}

get_next_bscan_index_any_scan(scan_id, current_index) ==
    FirstAsc({k[2] : k \in {r \in DOMAIN bscans : r[2] > current_index}})
\* Variant: the comparison admits the current index itself.
get_next_bscan_index_inclusive(scan_id, current_index) ==
    FirstAsc({k[2] : k \in {r \in Rows(scan_id) : r[2] >= current_index}})
get_next_bscan_index(scan_id, current_index) ==
    FirstAsc({k[2] : k \in {r \in Rows(scan_id) : r[2] > current_index}})

get_prev_bscan_index_asc(scan_id, current_index) ==
    FirstAsc({k[2] : k \in {r \in Rows(scan_id) : r[2] < current_index}})
get_prev_bscan_index(scan_id, current_index) ==
    FirstDesc({k[2] : k \in {r \in Rows(scan_id) : r[2] < current_index}})

get_next_unlabeled_index_wraps(scan_id, current_index) ==
    LET above == {r \in Rows(scan_id) : r[2] > current_index /\ bscans[r] = 0}
        all == {r \in Rows(scan_id) : bscans[r] = 0}
    IN  FirstAsc({k[2] : k \in IF above = {} THEN all ELSE above})
get_next_unlabeled_index(scan_id, current_index) ==
    FirstAsc({k[2] : k \in {r \in Rows(scan_id) :
                               r[2] > current_index /\ bscans[r] = 0}})

NavOps == {"get_prev_bscan_index", "get_next_bscan_index",
           "get_next_unlabeled_index"}

NavQuery(op, scan_id, current_index) ==
    CASE op = "get_prev_bscan_index" -> get_prev_bscan_index(scan_id, current_index)
      [] op = "get_next_bscan_index" -> get_next_bscan_index(scan_id, current_index)
      [] op = "get_next_unlabeled_index" ->
            get_next_unlabeled_index(scan_id, current_index)

\* a call on the record store: one session, one transaction; rows is the table
\* as the call leaves it
CallStore(w, c, r, rows) ==
    /\ pc[w] = "idle"
    /\ call' = [call EXCEPT ![w] = c]
    /\ Finish(w, r, loc)
    /\ bscans' = rows
    /\ lastInv' = "-"
    /\ UNCHANGED <<resolved, norm, scope, format, method, dirs, files, gens>>

Value(v) == [NoRet EXCEPT !.kind = "ok", !.value = v]

\* one of the three navigation queries, for any current index of the range,
\* whether a record has it or not
Navigate(w) ==
    \E op \in NavOps, s \in scope, i \in BscanIndices :
        CallStore(w, [NoCall EXCEPT !.op = op, !.scan = s, !.idx = i],
                  Value(NavQuery(op, s, i)), bscans)

\* ---- labels (services/labeling_service.py)
ValidLabel_with_zero(new_label) == new_label \in {0, 1, 2}
\* if new_label not in (1, 2): raise ValueError
ValidLabel(new_label) == new_label \in {1, 2}

\* update_label: the result and the table it leaves
update_label(bscan_id, new_label) ==
    IF ~ValidLabel(new_label)
       THEN [res |-> Raise("ValueError", "invalid label"), rows |-> bscans]
       ELSE IF bscan_id \notin DOMAIN bscans
               THEN [res |-> Raise("ValueError", "not found"), rows |-> bscans]
               ELSE [res |-> Value(new_label),
                     rows |-> [bscans EXCEPT ![bscan_id] = new_label]]

clear_label(bscan_id) ==
    IF bscan_id \notin DOMAIN bscans
       THEN [res |-> Raise("ValueError", "not found"), rows |-> bscans]
       ELSE [res |-> Value(0), rows |-> [bscans EXCEPT ![bscan_id] = 0]]

\* the records the requests of this run name, present or not
RequestIds == scope \X BscanIndices

SetLabel(w) ==
    \E id \in RequestIds, l \in LabelInputs :
        LET u == update_label(id, l) IN
        CallStore(w, [NoCall EXCEPT !.op = "update_label", !.scan = id[1],
                                    !.idx = id[2], !.label = l],
                  u.res, u.rows)

ClearLabel(w) ==
    \E id \in RequestIds :
        LET u == clear_label(id) IN
        CallStore(w, [NoCall EXCEPT !.op = "clear_label", !.scan = id[1],
                                    !.idx = id[2]],
                  u.res, u.rows)

\* ---- bulk_update_labels and the session it runs in
\* label_updates: a dict bscan_id -> new_label, as the list of its items in
\* insertion order; a dict has each key once
LabelUpdates ==
    {u \in UNION {[1..n -> RequestIds \X LabelInputs] : n \in 1..MaxUpdates} :
        \A m, n \in DOMAIN u : m # n => u[m][1] # u[n][1]}

Updated(n) == [NoRet EXCEPT !.kind = "ok", !.count = n]

\* the loop of lines 100-102 over the items that are left: update_label on the
\* rows of the session, which raises on the first item it does not accept and
\* leaves the rows as the items before it have set them
RECURSIVE UpdateEach(_, _, _)
UpdateEach(rows, items, n) ==
    IF items = <<>> THEN [res |-> Updated(n), rows |-> rows]
    ELSE LET bscan_id == Head(items)[1]
             new_label == Head(items)[2]
         IN  IF ~ValidLabel(new_label)
                THEN [res |-> Raise("ValueError", "invalid label"), rows |-> rows]
                ELSE IF bscan_id \notin DOMAIN rows
                        THEN [res |-> Raise("ValueError", "not found"), rows |-> rows]
                        ELSE UpdateEach([rows EXCEPT ![bscan_id] = new_label],
                                        Tail(items), n + 1)

\* bulk_update_labels: the result and the rows of the session as it leaves them
bulk_update_labels(label_updates) == UpdateEach(bscans, label_updates, 0)

\* Variant: the session is committed whether the body has raised or not.
get_db_commits(before, out) == out.rows

\* get_db: commit when the body returns, rollback when it raises; the table after
\* the session is closed
get_db(before, out) == IF out.res.kind = "ok" THEN out.rows ELSE before

\* a request that runs bulk_update_labels in a session of get_db
BulkUpdate(w) ==
    /\ pc[w] = "idle"
    /\ \E label_updates \in LabelUpdates :
        LET out == bulk_update_labels(label_updates) IN
        CallStore(w, [NoCall EXCEPT !.op = "bulk_update_labels",
                                    !.updates = label_updates],
                  out.res, get_db(bscans, out))

\* ---- routes of api/v1/bscans.py
PostLabel == "POST /bscans/{bscan_id}/label"
DeleteLabel == "DELETE /bscans/{bscan_id}/label"
GetBscan == "GET /bscans/{bscan_id}"

\* the routes of the router that declare Depends(get_current_user)
AuthenticatedRoutes == {}

\* get_current_user: 401 unless the request carries a valid access_token cookie
get_current_user(auth) == IF auth THEN "user" ELSE "401"

\* the dependencies of a route, resolved before its body runs
Rejected(route, auth) ==
    route \in AuthenticatedRoutes /\ get_current_user(auth) = "401"

\* BScanLabelUpdate: label with ge=1, le=2 and validate_label
BScanLabelUpdate(label) == label >= 1 /\ label <= 2 /\ label \in {1, 2}

Http(code, label) == [NoRet EXCEPT !.kind = code, !.value = label]

HttpCall(route, id, l, auth) ==
    [NoCall EXCEPT !.op = route, !.scan = id[1], !.idx = id[2], !.label = l,
                   !.auth = auth]

update_bscan_label(w) ==
    \E id \in RequestIds, l \in LabelInputs, auth \in BOOLEAN :
        LET c == HttpCall(PostLabel, id, l, auth)
            u == update_label(id, l)
        IN  IF Rejected(PostLabel, auth)
               THEN CallStore(w, c, Http("401", None), bscans)
            ELSE IF ~BScanLabelUpdate(l)
               THEN CallStore(w, c, Http("422", None), bscans)
            ELSE IF u.res.kind = "ValueError"
               THEN CallStore(w, c,
                              Http(IF u.res.why = "not found" THEN "404" ELSE "400",
                                   None),
                              bscans)
            ELSE CallStore(w, c, Http("200", u.rows[id]), u.rows)

clear_bscan_label(w) ==
    \E id \in RequestIds, auth \in BOOLEAN :
        LET c == HttpCall(DeleteLabel, id, 0, auth)
            u == clear_label(id)
        IN  IF Rejected(DeleteLabel, auth)
               THEN CallStore(w, c, Http("401", None), bscans)
            ELSE IF u.res.kind = "ValueError"
               THEN CallStore(w, c, Http("404", None), bscans)
            ELSE CallStore(w, c, Http("200", u.rows[id]), u.rows)

get_bscan_by_id(w) ==
    \E id \in RequestIds, auth \in BOOLEAN :
        LET c == HttpCall(GetBscan, id, 0, auth) IN
        IF Rejected(GetBscan, auth)
           THEN CallStore(w, c, Http("401", None), bscans)
        ELSE IF id \notin DOMAIN bscans
           THEN CallStore(w, c, Http("404", None), bscans)
        ELSE CallStore(w, c, Http("200", bscans[id]), bscans)

\* ---- statistics of a scan (services/scan_service.py)
CountLabel(scan_id, l) == Cardinality({k \in Rows(scan_id) : bscans[k] = l})

\* the fields of schema ScanStats; each is required
ScanStatsFields == {"total_bscans", "labeled", "unlabeled", "healthy", "unhealthy",
                    "percent_complete"}

\* ScanStats(**kw): validation fails when a required field is not among the
\* keywords; keywords that name no field are ignored
ScanStats(kw) ==
    IF ScanStatsFields \subseteq DOMAIN kw
       THEN [NoRet EXCEPT !.kind = "ok", !.stats = [f \in ScanStatsFields |-> kw[f]]]
       ELSE Raise("ValidationError", "field required")

\* completion in hundredths of a percent, rounded to the nearest
Percentage(labeled, total) ==
    IF total > 0 THEN (2 * labeled * 10000 + total) \div (2 * total) ELSE 0

get_scan_stats(scan_id) ==
    LET total_bscans == Cardinality(Rows(scan_id))
        unlabeled_count == CountLabel(scan_id, 0)
        healthy_count == CountLabel(scan_id, 1)
        unhealthy_count == CountLabel(scan_id, 2)
        labeled_count == healthy_count + unhealthy_count
    IN  ScanStats([total_bscans |-> total_bscans,
                   labeled_bscans |-> labeled_count,
                   healthy_count |-> healthy_count,
                   unhealthy_count |-> unhealthy_count,
                   unlabeled_count |-> unlabeled_count,
                   completion_percentage |-> Percentage(labeled_count,
                                                        total_bscans)])

ScanStatistics(w) ==
    \E s \in scope :
        CallStore(w, [NoCall EXCEPT !.op = "get_scan_stats", !.scan = s],
                  get_scan_stats(s), bscans)

StoreStep(w) ==
    \/ Navigate(w)
    \/ SetLabel(w)
    \/ ClearLabel(w)
    \/ update_bscan_label(w)
    \/ clear_bscan_label(w)
    \/ get_bscan_by_id(w)
    \/ ScanStatistics(w)

(***************************************************************************)
(* Path resolution, with the scan id spelled out as a string               *)
(***************************************************************************)
MaxIdLen == 2

\* a letter, the path separator, the dot
Chars == {"a", "/", "."}

\* scan_id: str, not empty
ScanIdStrings == UNION {[1..n -> Chars] : n \in 1..MaxIdLen}

\* self.cache_dir: settings.cache_dir / "previews", as path components
CacheRoot == << <<"cache">>, <<"previews">> >>

\* The components of a string as pathlib parses it: the string is cut at every
\* separator, empty components and "." components are dropped.
RECURSIVE Parts(_, _, _)
Parts(s, cur, acc) ==
    LET out == IF cur = <<>> \/ cur = <<".">> THEN acc ELSE Append(acc, cur) IN
    IF s = <<>>
       THEN out
       ELSE IF Head(s) = "/"
               THEN Parts(Tail(s), <<>>, out)
               ELSE Parts(Tail(s), Append(cur, Head(s)), acc)

IsAbsolute(s) == s # <<>> /\ Head(s) = "/"

\* base / s: an absolute right operand replaces the base
JoinPath(base, s) ==
    IF IsAbsolute(s)
       THEN << <<"/">> >> \o Parts(s, <<>>, <<>>)
       ELSE base \o Parts(s, <<>>, <<>>)

\* f"{bscan_index}.{self.preview_format}"
FileName(bscan_index) == <<ToString(bscan_index), ".", format>>

\* scan_cache_dir = self.cache_dir / scan_id
ScanCacheDir(scan_id) == JoinPath(CacheRoot, scan_id)

\* return scan_cache_dir / f"{bscan_index}.{self.preview_format}"
ResolvePath(scan_id, bscan_index) ==
    ScanCacheDir(scan_id) \o <<FileName(bscan_index)>>

\* get_preview_path(scan_id, bscan_index): the directory it creates, the path it
\* returns.  A run makes two calls, whose paths can then be compared.
Resolve ==
    /\ Cardinality(resolved) < 2
    /\ \E sid \in ScanIdStrings, i \in Indices :
          resolved' = resolved \cup {[scan_id |-> sid, bscan_index |-> i,
                                      made |-> ScanCacheDir(sid),
                                      path |-> ResolvePath(sid, i)]}
    /\ UNCHANGED <<norm, bscans, scope, format, method, dirs, files, pc, call, loc,
                   ret, gens, lastInv>>

(***************************************************************************)
(* Normalizers (utils/image_processing.py), on images given as the         *)
(* sequence of their samples                                               *)
(***************************************************************************)
MaxPixels == 2
U16 == 65536
MidGray == 128
MaxGray == 255

\* samples of a 16-bit image: the ends of the range and its neighbours
Samples == {0, 1, 2, U16 - 1}
Images == UNION {[1..n -> Samples] : n \in 1..MaxPixels}

\* percentiles offered to normalize_percentile, in percent
Percentiles == {0, 1, 50, 99, 100}
\* bounds offered to normalize_fixed_window: inside the sample range and below it
WindowBounds == {-1, 0, 1, 2, U16 - 1}

Occurrences(img, v) == Cardinality({i \in DOMAIN img : img[i] = v})

\* the samples in ascending order
Sorted(img) ==
    CHOOSE a \in [DOMAIN img -> Samples] :
        /\ \A i, j \in DOMAIN img : i <= j => a[i] <= a[j]
        /\ \A v \in Samples : Occurrences(a, v) = Occurrences(img, v)

\* np.percentile(img_array, q), linear interpolation between the two nearest
\* ranks; the value is given in hundredths of a sample
Percentile(img, q) ==
    LET a == Sorted(img)
        pos == (Len(img) - 1) * q
        i == pos \div 100
        r == pos % 100
    IN  IF r = 0 THEN 100 * a[i + 1]
                 ELSE 100 * a[i + 1] + r * (a[i + 2] - a[i + 1])

\* np.full(img_array.shape, 128, dtype=np.uint8)
Full(img, v) == [i \in DOMAIN img |-> v]

\* Variant: the guard against a window of width zero is dropped.
Degenerate_never(lo, hi) == FALSE
\* if p_high - p_low == 0 / if window_max - window_min == 0
Degenerate(lo, hi) == hi - lo = 0

\* np.clip(num / width * 255, 0, 255).astype(np.uint8): the quotient is clipped,
\* then cut to its integer part.  (The rounding error of the float64 quotient is
\* left out; a width of zero gives nan or inf, taken as 0 here.)
Scale(num, width) ==
    LET n == IF width < 0 THEN 0 - num ELSE num
        d == IF width < 0 THEN 0 - width ELSE width
    IN  IF d = 0 \/ n <= 0 THEN 0
        ELSE IF n >= d THEN MaxGray
        ELSE (n * MaxGray) \div d

Normalized(out, divzero) == [out |-> out, raised |-> "none", divzero |-> divzero]

normalize_percentile(img, low_percentile, high_percentile) ==
    LET p_low == Percentile(img, low_percentile)
        p_high == Percentile(img, high_percentile)
    IN  IF Degenerate(p_low, p_high)
           THEN Normalized(Full(img, MidGray), FALSE)
           ELSE Normalized([i \in DOMAIN img |->
                               Scale(100 * img[i] - p_low, p_high - p_low)],
                           p_high - p_low = 0)

InU16(v) == v >= 0 /\ v < U16

\* img_array - window_min, for a uint16 array and a Python int: the result stays
\* uint16 and wraps when the int fits uint16; when it does not, NumPy 1 widens the
\* result to a signed type and NumPy 2 raises OverflowError
Subtract(x, window_min) == IF InU16(window_min) THEN (x - window_min) % U16
                                                ELSE x - window_min

normalize_fixed_window(img, window_min, window_max, numpy2) ==
    IF Degenerate(window_min, window_max)
       THEN Normalized(Full(img, MidGray), FALSE)
       ELSE IF numpy2 /\ ~InU16(window_min)
               THEN [out |-> <<>>, raised |-> "OverflowError", divzero |-> FALSE]
               ELSE Normalized([i \in DOMAIN img |->
                                   Scale(Subtract(img[i], window_min),
                                         window_max - window_min)],
                               window_max - window_min = 0)

\* a run applies one normalizer to one image
Applied(fn, img, a, b, numpy2, res) ==
    /\ norm.fn = "none"
    /\ norm' = [fn |-> fn, img |-> img, a |-> a, b |-> b, numpy2 |-> numpy2,
                out |-> res.out, raised |-> res.raised, divzero |-> res.divzero]
    /\ UNCHANGED <<resolved, bscans, scope, format, method, dirs, files, pc, call,
                   loc, ret, gens, lastInv>>

\* normalize_percentile with any valid pair 0 <= low < high <= 100
ApplyPercentile ==
    \E img \in Images, low \in Percentiles, high \in Percentiles :
        /\ low < high
        /\ Applied("percentile", img, low, high, FALSE,
                   normalize_percentile(img, low, high))

\* normalize_fixed_window with any bounds, under either NumPy
ApplyFixedWindow ==
    \E img \in Images, window_min \in WindowBounds, window_max \in WindowBounds,
       numpy2 \in BOOLEAN :
        Applied("fixed_window", img, window_min, window_max, numpy2,
                normalize_fixed_window(img, window_min, window_max, numpy2))

\* one caller, one call after the other
Next == Step(1)
Spec == Init /\ [][Next]_vars

\* one caller of every operation there is: the cache, the existence check, the
\* record store
NextLife ==
    \/ Step(1)
    \/ preview_exists(1)
    \/ StoreStep(1)
SpecLife == InitLife /\ [][NextLife]_vars

\* concurrent callers
NextConc == \E w \in Workers : Step(w)
SpecConc == InitConc /\ [][NextConc]_vars

\* a later caller asks for the key of the call that caller 1 has just ended
StartRetry(w) ==
    /\ pc[w] = "idle"
    /\ \E src \in SrcStates :
          call' = [call EXCEPT ![w] = [NoCall EXCEPT !.op = "get_or_generate_preview",
                                          !.scan = call[1].scan,
                                          !.idx = call[1].idx,
                                          !.src = src]]
    /\ pc' = [pc EXCEPT ![w] = "resolve"]
    /\ lastInv' = "-"
    /\ UNCHANGED <<resolved, norm, bscans, scope, format, method, dirs, files, loc, ret, gens>>

\* caller 1 makes generation calls one after the other
Requests(w) ==
    /\ pc[2] = "idle"
    /\ \/ StartGenerate(w)
       \/ generate_preview_for_bscan(w)
       \/ Return(w)

\* caller 2 makes its calls while caller 1 holds the outcome of a call of its own
Retries(w) ==
    /\ pc[1] = "done"
    /\ \/ StartRetry(w)
       \/ generate_preview_for_bscan(w)
       \/ Return(w)

NextConfig ==
    \/ Requests(1)
    \/ Retries(2)
SpecConfig == InitConfig /\ [][NextConfig]_vars

\* every call that has been entered runs to its end, and each caller gets its
\* turn: the handlers are coroutines of one event loop that runs every ready task
SpecConfigFair == SpecConfig /\ WF_vars(Requests(1)) /\ WF_vars(Retries(2))

\* the record store alone
NextStore ==
    \/ StoreStep(1)
    \/ Return(1)
SpecStore == InitStore /\ [][NextStore]_vars

\* bulk updates alone
NextBulk ==
    \/ BulkUpdate(1)
    \/ Return(1)
SpecBulk == InitBulk /\ [][NextBulk]_vars

\* path resolution alone
NextPath == Resolve
SpecPath == InitPure /\ [][NextPath]_vars

\* the normalizers alone
NextNorm ==
    \/ ApplyPercentile
    \/ ApplyFixedWindow
SpecNorm == InitPure /\ [][NextNorm]_vars

(***************************************************************************)
(* Properties                                                              *)
(***************************************************************************)
Done(w) == pc[w] = "done"
IsGet(w) == call[w].op = "get_or_generate_preview"
IsForce(w) == call[w].op = "force_regenerate"
Resolved(w) == PreviewPath(call[w].scan, call[w].idx)

\* w is inside the generation pipeline: load, normalize, encode, write
InPipeline(w) == call[w].op \in GenOps /\ pc[w] \in {"load", "save", "open", "write"}

\* C1: at most one generation is in flight for a cache key at any time: two
\* get_or_generate calls for the same key are never both inside the pipeline.
C1_SingleFlight ==
    \A w, v \in Workers :
        (w # v /\ IsGet(w) /\ IsGet(v) /\ Key(w) = Key(v))
            => ~(InPipeline(w) /\ InPipeline(v))

\* C2: concurrent get_or_generate calls for an uncached key run the generation
\* pipeline exactly once in total: no key sees a second completed generation while
\* its entry stays in the cache.
C2_OneGenerationForAll == \A k \in Keys : gens[k] <= 1

\* C3: a file that exists at a cache path is a complete artifact: no call returns as a
\* cache hit a file that is only partially written.
C3_NoPartialHit == \A w \in Workers : Done(w) => ret[w].hit # "partial"

\* C4: get_or_generate called twice in sequence for one key generates once: with one
\* caller no key is generated a second time while its entry stays in the cache, a
\* call that finds the entry runs no generation, and every successful call returns
\* the resolved path of its key.
C4_TwiceGeneratesOnce ==
    /\ \A k \in Keys : gens[k] <= 1
    /\ \A w \in Workers :
          (Done(w) /\ IsGet(w) /\ ret[w].kind = "ok")
              => /\ ret[w].path = Resolved(w)
                 /\ (ret[w].hit # "-" => ~loc[w].ran)
                 /\ (ret[w].hit = "-" => loc[w].ran /\ gens[Key(w)] = 1)

\* the second of two calls: a hit on the entry the first call generated
C4_Witness ==
    \E w \in Workers :
        /\ Done(w) /\ IsGet(w) /\ call[w].src = "valid"
        /\ ret[w].hit = "complete" /\ ~loc[w].ran
        /\ gens[Key(w)] = 1

\* C5: a get_or_generate call that finds neither the cache entry nor the source
\* raises FileNotFoundError from the source check, has run no generation, and leaves
\* no cache entry for its key.
C5_MissingSource ==
    \A w \in Workers :
        (Done(w) /\ IsGet(w) /\ call[w].src = "missing" /\ ret[w].hit = "-")
            => /\ ret[w] = Raise("FileNotFoundError", "source")
               /\ ~loc[w].ran
               /\ files[Key(w)] = "none"

C5_Witness ==
    \E w \in Workers :
        /\ Done(w) /\ IsGet(w) /\ call[w].src = "missing"
        /\ ret[w].kind = "FileNotFoundError"

\* C6: when the cache entry exists, the existence test of a get_or_generate call
\* returns the resolved path at once, whatever the state of the source: the call
\* runs no generation and changes neither the entry nor any other file.
C6_HitStep(w) ==
    (pc[w] = "check" /\ pc'[w] # "check" /\ IsGet(w) /\ files[Key(w)] # "none")
        => /\ pc'[w] = "done"
           /\ ret'[w].kind = "ok"
           /\ ret'[w].path = Resolved(w)
           /\ ~loc'[w].ran
           /\ files' = files
           /\ gens' = gens

C6_HitSkipsSource == [][\A w \in Workers : C6_HitStep(w)]_vars

\* a hit returned although the source is missing
C6_Witness ==
    \E w \in Workers :
        /\ Done(w) /\ IsGet(w) /\ call[w].src = "missing"
        /\ ret[w].kind = "ok" /\ ret[w].hit = "complete"
        /\ ret[w].path = Resolved(w)

\* C7: force_regenerate on a key whose source exists always runs the pipeline and
\* never answers from the cache; it can fail only inside the pipeline (a source that
\* does not decode, a write that fails), and when it returns the entry exists,
\* written by this call, and the returned path is the resolved path.
C7_ForceRegenerates ==
    \A w \in Workers :
        (Done(w) /\ IsForce(w) /\ call[w].src # "missing")
            => /\ loc[w].ran
               /\ ret[w].hit = "-"
               /\ \/ ret[w].kind = "ok"
                  \/ ret[w] = Raise("OSError", "write")
                  \/ call[w].src = "corrupt" /\ ret[w] = Raise("ValueError", "decode")
               /\ (ret[w].kind = "ok"
                      => /\ loc[w].mine
                         /\ files[Key(w)] = "complete"
                         /\ ret[w].path = Resolved(w))

\* a forced regeneration that overwrote an entry that was there
C7_Witness ==
    \E w \in Workers :
        /\ Done(w) /\ IsForce(w) /\ call[w].src = "valid"
        /\ ret[w].kind = "ok" /\ ~loc[w].created /\ loc[w].mine

\* C8: invalidate_scan returns the number of files the scan held, leaves no file and
\* no subdirectory of the scan, and returns 0 when called again right away (as it
\* does whenever the subdirectory does not exist).
C8_InvalidateScan ==
    \A w \in Workers :
        (Done(w) /\ call[w].op = "clear_cache_for_scan")
            => /\ ret[w].kind = "ok"
               /\ ret[w].count = loc[w].pre
               /\ FilesOf(call[w].scan) = {}
               /\ call[w].scan \notin dirs
               /\ (lastInv = call[w].scan => ret[w].count = 0)

C8_Witness ==
    \E w \in Workers :
        /\ Done(w) /\ call[w].op = "clear_cache_for_scan"
        /\ ret[w].count >= 2

\* C9: invalidate_all returns the number of cache entries that existed over all
\* scans, and afterwards no cache entry exists for any key.
C9_InvalidateAll ==
    \A w \in Workers :
        (Done(w) /\ call[w].op = "clear_all_cache")
            => /\ ret[w].kind = "ok"
               /\ ret[w].count = loc[w].pre
               /\ Existing = {}

\* entries of both scans were cleared
C9_Witness ==
    \E w \in Workers :
        /\ Done(w) /\ call[w].op = "clear_all_cache"
        /\ ret[w].count >= 3

\* C10: after any sequence of calls, cache_stats reports as artifact count the number
\* of cache entries that exist and as scan count the number of scan subdirectories
\* that exist.
C10_StatsMatchDisk ==
    \A w \in Workers :
        (Done(w) /\ call[w].op = "get_cache_stats")
            => /\ ret[w].count = Cardinality(Existing)
               /\ ret[w].nscans = Cardinality(dirs)

\* statistics over a tree that holds an entry and an empty scan subdirectory
C10_Witness ==
    \E w \in Workers :
        /\ Done(w) /\ call[w].op = "get_cache_stats"
        /\ ret[w].count >= 1
        /\ ret[w].nscans > Cardinality({s \in Scans : FilesOf(s) # {}})

\* the call of w is writing the file it created at k and has not returned
Writing(w, k) ==
    /\ call[w].op \in GenOps /\ Key(w) = k
    /\ pc[w] = "write" /\ loc[w].created

\* The cache holds an entry for k: a file is at the path of k, and it is not the
\* unfinished output of a generation that created it and is still running.
Entry(k) == files[k] # "none" /\ ~\E w \in Workers : Writing(w, k)

\* the step is one of w's call
Acting(w) == <<pc[w], call[w], loc[w], ret[w]>> # <<pc[w], call[w], loc[w], ret[w]>>'

Invalidates(w, k) ==
    \/ call[w].op = "clear_cache_for_scan" /\ call[w].scan = k[1]
    \/ call[w].op = "clear_all_cache"

C11_Step(k) ==
    /\ (~Entry(k) /\ Entry(k)')
          => \E w \in Workers : Acting(w) /\ call[w].op \in GenOps /\ Key(w) = k
    /\ (Entry(k) /\ ~Entry(k)')
          => \E w \in Workers : Acting(w) /\ Invalidates(w, k)

\* C11: an entry for key k comes into existence only in a step of a
\* get_or_generate or force_regenerate call for k, and an entry that exists goes
\* away only in a step of clear_cache_for_scan for its scan or of clear_all_cache:
\* no step of any other operation (a request for another key, preview_exists,
\* get_cache_stats, a navigation query, a label operation, scan statistics)
\* creates or deletes it.
C11_Lifecycle == [][\A k \in Keys : C11_Step(k)]_vars

\* a label is set while an entry is cached, and the entry is still there
C11_Witness ==
    /\ Done(1) /\ call[1].op = "update_label" /\ ret[1].kind = "ok"
    /\ Entry(<<"s1", 0>>) /\ files[<<"s1", 0>>] = "complete"

\* the path has the shape <cache_root>/<scan_id>/<index>.<format>: the cache root,
\* then the scan id as one component, then the file name
Shaped(r) == r.path = CacheRoot \o <<r.scan_id, FileName(r.bscan_index)>>

\* C12: every resolved path has the shape <cache_root>/<scan_id>/<index>.<format>,
\* and two calls with distinct (scan_id, index) pairs never resolve to one path.
C12_PathInjective ==
    /\ \A r \in resolved : Shaped(r)
    /\ \A r1, r2 \in resolved :
          <<r1.scan_id, r1.bscan_index>> # <<r2.scan_id, r2.bscan_index>>
              => r1.path # r2.path

\* ---- navigation
\* w has made the query op and holds its answer
Asked(w, op) == Done(w) /\ call[w].op = op

HasRecord(scan_id, i) == <<scan_id, i>> \in DOMAIN bscans

\* the indices of the records of the scan of w's query, below and above its
\* current index
Below(w) == {i \in BscanIndices : HasRecord(call[w].scan, i) /\ i < call[w].idx}
Above(w) == {i \in BscanIndices : HasRecord(call[w].scan, i) /\ i > call[w].idx}
UnlabeledAbove(w) == {i \in Above(w) : bscans[<<call[w].scan, i>>] = 0}

\* v is what a query answers when S holds its candidates and the one next to the
\* current index is wanted: none when there is no candidate
Nearest(v, S, upward) ==
    /\ (S = {}) <=> (v = None)
    /\ v # None => /\ v \in S
                   /\ \A i \in S : IF upward THEN v <= i ELSE i <= v

\* C13: get_prev_bscan_index answers the largest index strictly less than
\* current_index among the records of that scan, whatever the gaps between the
\* indices and whatever other scans hold, and none when no record of the scan has
\* a smaller index.
C13_PreviousIndex ==
    \A w \in Workers :
        Asked(w, "get_prev_bscan_index")
            => ret[w].kind = "ok" /\ Nearest(ret[w].value, Below(w), FALSE)

\* across a gap, with a record of the other scan inside the gap
C13_Witness ==
    \E w \in Workers :
        /\ Asked(w, "get_prev_bscan_index") /\ call[w].scan = "s1" /\ call[w].idx = 2
        /\ HasRecord("s1", 0) /\ ~HasRecord("s1", 1) /\ HasRecord("s2", 1)
        /\ ret[w].value = 0

\* C14: get_next_bscan_index answers the smallest index strictly greater than
\* current_index among the records of that scan, and none when no record of the
\* scan has a larger index.
C14_NextIndex ==
    \A w \in Workers :
        Asked(w, "get_next_bscan_index")
            => ret[w].kind = "ok" /\ Nearest(ret[w].value, Above(w), TRUE)

\* at the maximum of the scan, while the other scan has a larger index
C14_Witness ==
    \E w \in Workers :
        /\ Asked(w, "get_next_bscan_index") /\ call[w].scan = "s1" /\ call[w].idx = 1
        /\ HasRecord("s1", 0) /\ HasRecord("s1", 1) /\ ~HasRecord("s1", 2)
        /\ HasRecord("s2", 2)
        /\ ret[w].value = None

\* C15: get_next_unlabeled_index answers the smallest index strictly greater than
\* current_index whose record in that scan has label 0, and none when there is no
\* such record; it never answers an index at or below current_index.
C15_NextUnlabeled ==
    \A w \in Workers :
        Asked(w, "get_next_unlabeled_index")
            => /\ ret[w].kind = "ok"
               /\ Nearest(ret[w].value, UnlabeledAbove(w), TRUE)
               /\ ret[w].value # None => ret[w].value > call[w].idx

\* no wrap-around: an unlabeled record below, only labeled ones above
C15_Witness ==
    \E w \in Workers :
        /\ Asked(w, "get_next_unlabeled_index") /\ call[w].scan = "s1"
        /\ call[w].idx = 1
        /\ HasRecord("s1", 0) /\ bscans[<<"s1", 0>>] = 0
        /\ HasRecord("s1", 2) /\ bscans[<<"s1", 2>>] # 0
        /\ HasRecord("s2", 2)
        /\ ret[w].value = None

\* C16: a navigation query whose current_index is the index of no record of the
\* scan answers none.
C16_UnknownCurrent ==
    \A w \in Workers :
        (Done(w) /\ call[w].op \in NavOps /\ ~HasRecord(call[w].scan, call[w].idx))
            => ret[w].kind = "ok" /\ ret[w].value = None

\* ---- labels
\* the step is w's call of op, made and answered
Calls(w, op) == pc[w] = "idle" /\ pc'[w] = "done" /\ call'[w].op = op

C17_Step ==
    /\ \A w \in Workers :
          /\ (Calls(w, "update_label") /\ call'[w].label \notin {1, 2})
                => ret'[w].kind = "ValueError" /\ bscans' = bscans
          /\ (Calls(w, PostLabel) /\ call'[w].label \notin {1, 2})
                => ret'[w].kind \in {"400", "422"} /\ bscans' = bscans
    /\ DOMAIN bscans' = DOMAIN bscans
    /\ \A id \in DOMAIN bscans :
          /\ bscans'[id] \in {0, 1, 2}
          /\ (bscans'[id] = 0 /\ bscans[id] # 0)
                => \E w \in Workers :
                      /\ Calls(w, "clear_label") \/ Calls(w, DeleteLabel)
                      /\ <<call'[w].scan, call'[w].idx>> = id

\* C17: update_label (and the POST route in front of it) answers every label
\* outside {1,2}, 0 included, with an error and leaves the table as it was; a
\* record's label becomes 0 only in a clear_label call for that record; every
\* label is in {0,1,2} after every step.
C17_SetRejectsOutsideRange == [][C17_Step]_vars

\* update_label with 0 on a record labelled 2: rejected, the label is still 2
C17_Witness ==
    \E w \in Workers :
        /\ Asked(w, "update_label") /\ call[w].label = 0
        /\ ret[w].kind = "ValueError"
        /\ HasRecord(call[w].scan, call[w].idx)
        /\ bscans[<<call[w].scan, call[w].idx>>] = 2

\* C18: POST and DELETE /bscans/{bscan_id}/label without valid authentication
\* are answered 401; GET /bscans/{bscan_id} of an existing record is answered
\* 200 without authentication.
C18_LabelRoutesRequireUser ==
    \A w \in Workers :
        /\ (Done(w) /\ call[w].op \in {PostLabel, DeleteLabel} /\ ~call[w].auth)
              => ret[w].kind = "401"
        /\ (Asked(w, GetBscan) /\ ~call[w].auth
               /\ HasRecord(call[w].scan, call[w].idx))
              => ret[w].kind = "200"

\* C19: get_scan_stats succeeds, with total_bscans the number of records of the
\* scan, unlabeled the number with label 0, labeled the number with label 1 or 2,
\* and labeled + unlabeled = total_bscans.
C19_ScanStats ==
    \A w \in Workers :
        Asked(w, "get_scan_stats")
            => /\ ret[w].kind = "ok"
               /\ LET of == {i \in BscanIndices : HasRecord(call[w].scan, i)}
                      zero == {i \in of : bscans[<<call[w].scan, i>>] = 0}
                  IN  /\ ret[w].stats.total_bscans = Cardinality(of)
                      /\ ret[w].stats.unlabeled = Cardinality(zero)
                      /\ ret[w].stats.labeled = Cardinality(of \ zero)
                      /\ ret[w].stats.labeled + ret[w].stats.unlabeled
                            = ret[w].stats.total_bscans

\* ---- normalizers
Constant(img) == \A i, j \in DOMAIN img : img[i] = img[j]
SameShape(out, img) == DOMAIN out = DOMAIN img

InFlight(w, s) ==
    call[w].op \in GenOps /\ call[w].scan = s /\ pc[w] \notin {"idle", "done"}

Clearing(v) == call[v].op \in {"clear_cache_for_scan", "clear_all_cache"}

\* the step takes a file of scan s away, or the subdirectory of s
Removes(s) ==
    \/ \E i \in Indices : files[<<s, i>>] # "none" /\ files'[<<s, i>>] = "none"
    \/ s \in dirs /\ s \notin dirs'

C21_Step ==
    \A v \in Workers, s \in Scans :
        (Acting(v) /\ Clearing(v) /\ Removes(s))
            => ~\E w \in Workers : InFlight(w, s)

\* C21: no step of clear_cache_for_scan or clear_all_cache deletes a file of scan
\* s or removes the subdirectory of s while a generation for a key of s is in
\* flight.
C21_InvalidationExcludesGeneration == [][C21_Step]_vars

\* ---- failed generation
\* the generation call of w has raised after the source check
FailedPastSource(w) ==
    /\ Done(w) /\ call[w].op \in GenOps
    /\ ret[w].kind # "ok" /\ ret[w].why # "source"

\* the key of w held no file when the call of w reached the pipeline
WasUncached(w) == IsGet(w) \/ loc[w].created

\* C22: when a generation for a previously uncached key has failed after the
\* source check, no file exists at the resolved cache path.
C22_FailureLeavesNoFile ==
    \A w \in Workers :
        (FailedPastSource(w) /\ WasUncached(w)) => files[Key(w)] = "none"

\* ---- requests after a failure
\* what a call raises with before the output file is opened: the source is
\* missing, cannot be decoded, or the configured method or format is unknown
EarlyFailures == {"source", "load", "decode", "method", "format"}

FailedGeneration(w) ==
    /\ Done(w) /\ call[w].op \in GenOps
    /\ ret[w].kind # "ok" /\ ret[w].why \in EarlyFailures

\* the step in which the call of w fails
Fails(w) == pc[w] # "done" /\ FailedGeneration(w)'

\* v has entered get_or_generate for the key of w, the source available
NextGet(v, w) ==
    /\ pc[v] = "resolve" /\ IsGet(v) /\ Key(v) = Key(w)
    /\ call[v].src = "valid"

\* the pipeline has run for v and has ended the way the configuration allows
Attempted(v) ==
    /\ Done(v) /\ loc[v].ran
    /\ IF method \notin SupportedMethods
          THEN ret[v].kind = "ValueError" /\ ret[v].why = "method"
          ELSE IF format \notin SupportedFormats
                  THEN ret[v].kind = "ValueError" /\ ret[v].why = "format"
                  ELSE ret[v].kind = "ok" \/ ret[v].why = "write"

\* C23 as stated: every generation that fails with a missing source, a decode
\* or a configuration error leaves its key uncached, and a get_or_generate for
\* that key that follows with the source available eventually returns a
\* freshly generated preview.
C23_FailureNeverBlocks ==
    /\ [][\A w \in Workers : Fails(w) => files'[Key(w)] = "none"]_vars
    /\ \A v \in Workers :
          (FailedGeneration(1) /\ NextGet(v, 1))
              ~> (Done(v) /\ loc[v].ran /\ ret[v].kind = "ok")

\* C23: a get_or_generate that fails with a missing source, a decode or a
\* configuration error leaves its key uncached (as does any failed generation
\* for a key without entry), and a get_or_generate for that key that follows
\* while the key is uncached and the source is available eventually returns,
\* having run the pipeline again: with a preview if the configuration is
\* supported and the write succeeds, with the configuration error otherwise.
C23_FailedGetNeverBlocks ==
    /\ [][\A w \in Workers :
            (Fails(w) /\ (IsGet(w) \/ files[Key(w)] = "none"))
                => files'[Key(w)] = "none"]_vars
    /\ \A v \in Workers :
          (FailedGeneration(1) /\ NextGet(v, 1) /\ files[Key(1)] = "none")
              ~> Attempted(v)

\* caller 1's get_or_generate has failed, and the get_or_generate of caller 2 for
\* the same key that followed has generated the preview
C23_Witness ==
    /\ FailedGeneration(1) /\ IsGet(1)
    /\ Done(2) /\ IsGet(2) /\ Key(2) = Key(1)
    /\ loc[2].ran /\ ret[2].kind = "ok" /\ files[Key(2)] = "complete"

\* ---- path resolution and the directory tree
\* the step makes a scan subdirectory that was not there
MakesDir == \E s \in Scans : s \notin dirs /\ s \in dirs'

\* the step belongs to the write of an artifact: save_preview_image of a running
\* generation
WritesArtifact == \E w \in Workers : call[w].op \in GenOps /\ pc[w] = "save"

\* C24: resolving a path and checking existence leave the cache directory tree
\* unchanged: a scan subdirectory appears only in a step that writes an artifact.
C24_ResolveIsPure == [][MakesDir => WritesArtifact]_vars

\* ---- the fixed window
\* clip((v - lo) * 255 / (hi - lo), 0, 255) rounded to the nearest integer, for
\* lo < hi
NearestGray(v, lo, hi) ==
    IF v <= lo THEN 0
    ELSE IF v >= hi THEN MaxGray
    ELSE (2 * (v - lo) * MaxGray + (hi - lo)) \div (2 * (hi - lo))

\* C25: normalize_fixed_window with window_min < window_max inside the sample
\* range maps every sample v to clip((v - min) * 255 / (max - min), 0, 255)
\* rounded to nearest: 0 for v <= min, 255 for v >= max.
C25_FixedWindow ==
    (/\ norm.fn = "fixed_window"
     /\ InU16(norm.a) /\ InU16(norm.b) /\ norm.a < norm.b)
        => /\ norm.raised = "none"
           /\ DOMAIN norm.out = DOMAIN norm.img
           /\ \A i \in DOMAIN norm.img :
                 norm.out[i] = NearestGray(norm.img[i], norm.a, norm.b)

\* ---- unsupported configuration
Unsupported == method \notin SupportedMethods \/ format \notin SupportedFormats

\* the error the pipeline raises under the configuration: the method is looked
\* at (convert_16bit_to_8bit) before the format (save_preview_image)
ConfigurationError == IF method \notin SupportedMethods THEN "method" ELSE "format"

\* C26 as stated: under an unsupported method or format every get_or_generate
\* and force_regenerate call fails with the configuration error, and none
\* returns a path.
C26_EveryCallFails ==
    \A w \in Workers :
        (Unsupported /\ Done(w) /\ call[w].op \in GenOps)
            => ret[w].kind = "ValueError" /\ ret[w].why = ConfigurationError

\* C26: under an unsupported method or format no call writes a file or falls
\* back to a default: a call that reaches the pipeline with a source that
\* decodes fails with the configuration error; a missing source and a source
\* that cannot be decoded are reported first; and the only path returned is a
\* get_or_generate's hit on an entry that was cached before.
C26_UnsupportedSurfaces ==
    \A w \in Workers :
        (Unsupported /\ Done(w) /\ call[w].op \in GenOps)
            => /\ ~loc[w].created
               /\ \/ /\ IsGet(w) /\ ret[w].kind = "ok" /\ ret[w].hit = "complete"
                     /\ ~loc[w].ran
                  \/ /\ call[w].src = "missing"
                     /\ ret[w].kind = "FileNotFoundError" /\ ~loc[w].ran
                  \/ /\ call[w].src = "corrupt"
                     /\ ret[w].kind = "ValueError" /\ ret[w].why = "decode"
                  \/ /\ call[w].src = "valid" /\ loc[w].ran
                     /\ ret[w].kind = "ValueError" /\ ret[w].why = ConfigurationError

\* a call under an unknown format has decoded and normalized its source and has
\* failed at the choice of the encoder
C26_Witness ==
    /\ format \notin SupportedFormats /\ method \in SupportedMethods
    /\ Done(1) /\ call[1].op \in GenOps /\ call[1].src = "valid"
    /\ ret[1].kind = "ValueError" /\ ret[1].why = "format"

\* ---- invalidation against invalidation
\* C27: two invalidations (clear_cache_for_scan of one scan, or one of them
\* clear_all_cache) that have both ended have both returned a count: neither
\* has raised.
C27_ConcurrentClearsComplete ==
    \A w, v \in Workers :
        (w # v /\ Done(w) /\ Done(v) /\ Clearing(w) /\ Clearing(v))
            => ret[w].kind = "ok" /\ ret[v].kind = "ok"

\* ---- forced regeneration without a source
ForcedWithoutSource(w) ==
    IsForce(w) /\ call[w].src = "missing" /\ pc[w] # "idle"

C29_Step ==
    \A w \in Workers :
        ForcedWithoutSource(w)
            => /\ files' = files /\ gens' = gens
               /\ Done(w)' => /\ ret'[w] = Raise("FileNotFoundError", "source")
                              /\ ~loc'[w].ran

\* C29: no step of a force_regenerate whose source is missing changes a cache
\* entry, and the call ends with FileNotFoundError from the source check
\* without having entered the pipeline: an entry that existed is still there.
C29_ForceWithoutSourceKeepsEntry == [][C29_Step]_vars

\* force_regenerate has failed on a missing source over an existing entry
C29_Witness ==
    /\ Done(1) /\ IsForce(1) /\ call[1].src = "missing"
    /\ ret[1].kind = "FileNotFoundError"
    /\ files[Key(1)] = "complete" /\ gens[Key(1)] > 0

\* ---- sequential navigation
\* the indices met by following get_next_bscan_index from i, at most n of them
RECURSIVE Follow(_, _, _)
Follow(scan_id, i, n) ==
    IF i = None \/ n = 0 THEN <<>>
    ELSE <<i>> \o Follow(scan_id, get_next_bscan_index(scan_id, i), n - 1)

IndicesOf(scan_id) == {k[2] : k \in Rows(scan_id)}

\* the walk from the smallest index of the scan, one step more than there are
\* records allowed
Traversal(scan_id) ==
    Follow(scan_id, FirstAsc(IndicesOf(scan_id)), Cardinality(Rows(scan_id)) + 1)

\* C30: a next or previous query from an existing index that has given an index
\* is undone by the opposite query from that index, and following next from the
\* smallest index of a scan meets every record of the scan once, in ascending
\* order, and ends with none.
C30_NavigationRoundTrip ==
    /\ \A w \in Workers :
          (/\ Done(w) /\ HasRecord(call[w].scan, call[w].idx)
           /\ ret[w].kind = "ok" /\ ret[w].value # None)
              => /\ call[w].op = "get_next_bscan_index"
                      => get_prev_bscan_index(call[w].scan, ret[w].value) = call[w].idx
                 /\ call[w].op = "get_prev_bscan_index"
                      => get_next_bscan_index(call[w].scan, ret[w].value) = call[w].idx
    /\ \A s \in Scans :
          LET t == Traversal(s) IN
          /\ Len(t) = Cardinality(Rows(s))
          /\ {t[n] : n \in DOMAIN t} = IndicesOf(s)
          /\ \A m, n \in DOMAIN t : m < n => t[m] < t[n]

\* the next query from index 0 has skipped the missing index 1 and given 2,
\* while the other scan has a record with index 1
C30_Witness ==
    /\ Done(1) /\ call[1].op = "get_next_bscan_index"
    /\ call[1].scan = "s1" /\ call[1].idx = 0
    /\ DOMAIN bscans = {<<"s1", 0>>, <<"s1", 2>>, <<"s2", 1>>}
    /\ ret[1].value = 2

\* ---- bulk label updates
\* an item the update does not accept: a label outside {1, 2}, or a record that
\* does not exist
BadItem(item) == item[2] \notin {1, 2} \/ item[1] \notin DOMAIN bscans

C28_Step ==
    \A w \in Workers :
        Calls(w, "bulk_update_labels")
            => LET u == call'[w].updates IN
               IF \E n \in DOMAIN u : BadItem(u[n])
                  THEN ret'[w].kind = "ValueError" /\ bscans' = bscans
                  ELSE /\ ret'[w].kind = "ok"
                       /\ DOMAIN bscans' = DOMAIN bscans
                       /\ \A id \in DOMAIN bscans :
                             bscans'[id] =
                                IF \E n \in DOMAIN u : u[n][1] = id
                                   THEN u[CHOOSE n \in DOMAIN u : u[n][1] = id][2]
                                   ELSE bscans[id]

====
